---- MODULE Spec2Model ----
(***************************************************************************)
(* State-machine model of the InfraZero dashboard controller               *)
(* (src/dashboard/app/page.tsx, component Home) and of the Remote Gateway   *)
(* calls it awaits (src/unnamed/part_000: fetchRegions, deployGlobal,      *)
(* infer, killRegion).                                                     *)
(*                                                                         *)
(* Every handler is cut at its await points: one action for the            *)
(* synchronous prefix that runs when the handler is invoked, one action    *)
(* for the continuation that runs when the awaited promise settles.        *)
(* Handlers are invoked on the committed React state: React commits the    *)
(* re-render of a discrete event before it dispatches the next one, so the *)
(* closure a handler runs in holds the state written by the previous one.  *)
(***************************************************************************)
EXTENDS Integers, Sequences, FiniteSets, TLC

-----------------------------------------------------------------------------
(* Bounds of the model. *)

\* handler invocations (user events and direct calls) explored per behaviour
MaxOps == 3
\* milliseconds of session time explored after page load
MaxElapsed == 2000
\* granularity of the clock
TimeStep == 1000
\* Date.now() at page load; any value of at least the cooldown
Epoch == 10000
\* longest roster the pure reconciliation specification draws
MaxRoster == 2
\* firings of the progress interval explored per generate call
MaxTicks == 1
\* per-region results in the lists given to the pipeline summary
MaxResults == 3
\* milliseconds the clock of the refresh drivers advances per fine step
DriverStep == 200
\* milliseconds of a session of the refresh drivers that are explored
DriverElapsed == 1000

(* Program constants. *)
Cooldown == 2000
KillRefreshDelay == 1000
LogKeep == 50
ProgressCap == 95
MIN_REFRESH_TIME == 600

-----------------------------------------------------------------------------
(* Values. *)

\* JavaScript null / undefined for string-valued slots
Null == "null"
\* number | null as an option: <<>> is null, <<n>> is the number n
None == <<>>
Some(v) == <<v>>

Ids == {"r1", "r2"}
Statuses == {"starting", "healthy", "down", "killed"}

\* type Region; origin stands for the fields the controller never reads
\* (slug, display_name, ip)
Region(id, status, latency, disabled, origin) ==
  [id |-> id, slug |-> origin, display_name |-> origin, ip |-> origin,
   status |-> status, latency_ms |-> latency, disabled |-> disabled]

Range(s) == {s[i] : i \in 1..Len(s)}

\* currentRegions.find((r) => r.id === id): the first entry with the id, as an
\* option (<<>> when find returns undefined)
FindById(s, id) ==
  IF \E i \in 1..Len(s) : s[i].id = id
  THEN <<s[CHOOSE i \in 1..Len(s) : s[i].id = id /\ \A j \in 1..(i-1) : s[j].id # id]>>
  ELSE <<>>

\* JavaScript truthiness of a string | null
Truthy(s) == s # Null /\ s # ""

-----------------------------------------------------------------------------
VARIABLES
  regions,              \* useState<Region[]>
  deploymentId,         \* useState<string | null>
  isLoadingRegions,     \* useState<boolean>
  isDeploying,          \* useState<boolean>
  isGenerating,         \* useState<boolean>
  killingRegion,        \* useState<string | null>
  prompt,               \* useState<string>, as a sequence of characters
  lastResult,           \* useState<LastResult | null>, as an option
  error,                \* useState<string | null>
  logs,                 \* useState<EventLogItem[]>, newest first (messages only)
  lastRefreshTimeRef,   \* useRef<number>
  loadingLockRef,       \* useRef<boolean>
  progressByRegion,     \* useState<Record<string, number>>
  progressTimerRef,     \* useRef<number | null>: TRUE while an interval is set
  mode,                 \* const MODE, fixed by the build environment
  now,                  \* Date.now()
  listCalls,            \* outstanding fetchRegions calls, each with its loadRegions frame
  deployCalls,          \* number of outstanding deployGlobal calls
  killCalls,            \* outstanding killRegion calls: the region handleKill was given
  inferCalls,           \* outstanding infer calls: the trimmed prompt handleGenerate sent
  killTimers,           \* setTimeout(() => loadRegions(true), 1000): due times
  ticks,                \* firings of the progress interval since it was last set
  listRequests,         \* history: the list requests the Remote Gateway has received
  markedKilled,         \* history: ids the roster has held as killed since the last deploy
  lastWrite,            \* history: the last write of the roster, as an option
  tracing,              \* whether lastWrite is kept
  invoked,              \* history: invocations so far, per handler
  refreshInterval,      \* useState<number>: 0 is Manual
  intervalTimers,       \* the setInterval timers of the refresh effect: period and due time
  isManualRefreshing,   \* useState<boolean>
  sleepTimer,           \* the sleep doSmoothRefresh awaits: its due time, as an option
  mounted,              \* whether the component is mounted
  manualStart           \* history: const start of the last doSmoothRefresh that ran, as an option

\* grouped by the handler that writes them
rosterVars == <<regions, deploymentId, markedKilled, lastWrite>>
refreshVars == <<isLoadingRegions, lastRefreshTimeRef, loadingLockRef, listCalls, listRequests>>
deployVars == <<isDeploying, deployCalls>>
killVars == <<killingRegion, killCalls, killTimers>>
generateVars == <<isGenerating, inferCalls, lastResult, progressByRegion,
                  progressTimerRef, ticks>>

\* fixed for the whole session
fixedVars == <<mode, tracing>>

\* written by the refresh drivers: the interval effect and doSmoothRefresh
driverVars == <<refreshInterval, intervalTimers, isManualRefreshing, sleepTimer, mounted,
                manualStart>>

vars == <<rosterVars, refreshVars, deployVars, killVars, generateVars,
          prompt, error, logs, fixedVars, now, invoked, driverVars>>

-----------------------------------------------------------------------------
(* What the Remote Gateway may answer. *)

\* a region as the gateway reports it
Healthy(id) == Region(id, "healthy", Some(80), FALSE, "gw")
Down(id) == Region(id, "down", None, FALSE, "gw")

\* rosters the gateway reports to the running dashboard
GatewayRosters ==
  { <<>>,
    <<Healthy("r1"), Healthy("r2")>>,
    <<Healthy("r2")>>,
    <<Down("r1"), Healthy("r2")>>,
    <<Healthy("r1"), Healthy("r1")>> }

\* a settled call: a body whose regions field is an array, a body whose regions
\* field is absent or no array (or no body at all), or a rejected promise
Body(kind, deployment_id, roster) ==
  [kind |-> kind, deployment_id |-> deployment_id, regions |-> roster]

ListResponses ==
  {Body("array", Null, roster) : roster \in GatewayRosters}
    \cup {Body("array", "dep-1", <<Healthy("r1"), Healthy("r2")>>),
          Body("malformed", Null, <<>>),
          Body("rejected", Null, <<>>)}

DeployResponses ==
  {Body("array", "dep-1", roster) : roster \in GatewayRosters}
    \cup {Body("array", Null, <<Healthy("r1"), Healthy("r2")>>),
          Body("malformed", "dep-1", <<>>),
          Body("malformed", Null, <<>>),
          Body("rejected", Null, <<>>)}

\* type RegionResult
RegionResult(id, latency, err) ==
  [region_id |-> id, region_slug |-> id, region_name |-> id,
   latency_ms |-> latency, error |-> err]

\* the body of an infer response
InferBody(kind, region, latency, err, results) ==
  [kind |-> kind, region_id |-> region, region_slug |-> region, region_name |-> region,
   latency_ms |-> latency, error |-> err, results |-> results]

InferResponses ==
  { InferBody("body", "r2", Some(80), Null,
              <<RegionResult("r1", Some(120), Null), RegionResult("r2", Some(80), Null),
                RegionResult("r3", None, "timeout")>>),
    InferBody("body", "r1", Some(120), Null, <<>>),
    InferBody("body", Null, None, "no healthy regions", <<>>),
    InferBody("rejected", Null, None, Null, <<>>) }

\* what the user may type into the prompt box
Prompts == {<<>>, <<" ">>, <<"a">>, <<" ", "a", " ">>}

\* the draws of Math.random() the model follows: 5 + Math.random() * 15 when a
\* region's progress is seeded, 5 + Math.random() * 10 when it advances
ProgressSeeds == {5, 19}
ProgressSteps == {5, 14}

-----------------------------------------------------------------------------
(* Pure helpers of the component. *)

\* mutant: the disabled flag is not consulted
isKillDisabledByStatus(region) ==
  region.status = "down" \/ region.status = "killed"

isKillDisabled(region) ==
  region.status = "down" \/ region.status = "killed" \/ region.disabled

\* String.prototype.trim on a sequence of characters
RECURSIVE TrimStart(_)
TrimStart(p) ==
  IF p # <<>> /\ Head(p) = " " THEN TrimStart(Tail(p)) ELSE p

RECURSIVE TrimEnd(_)
TrimEnd(p) ==
  IF p # <<>> /\ p[Len(p)] = " " THEN TrimEnd(SubSeq(p, 1, Len(p) - 1)) ELSE p

Trim(p) == TrimEnd(TrimStart(p))

\* mutant: appendLog that writes nothing
appendNothing(prev, message) == prev

\* the updater of appendLog: [entry, ...prev.slice(0, 50)]
appendLog(prev, message) ==
  <<message>> \o SubSeq(prev, 1, IF Len(prev) < LogKeep THEN Len(prev) ELSE LogKeep)

\* mutant: the override forces the status and keeps the fetched latency
ReconcileKeepsLatency(currentRegions, fetched) ==
  [i \in 1..Len(fetched) |->
     LET newRegion == fetched[i]
         currentRegion == FindById(currentRegions, newRegion.id)
     IN  IF /\ currentRegion # <<>>
            /\ (currentRegion[1].status = "killed" \/ currentRegion[1].status = "down")
         THEN [newRegion EXCEPT !.status = "killed"]
         ELSE newRegion]

\* mutant: only a killed region is overridden, a down region is not
ReconcileKilledOnly(currentRegions, fetched) ==
  [i \in 1..Len(fetched) |->
     LET newRegion == fetched[i]
         currentRegion == FindById(currentRegions, newRegion.id)
     IN  IF currentRegion # <<>> /\ currentRegion[1].status = "killed"
         THEN [newRegion EXCEPT !.status = "killed", !.latency_ms = None]
         ELSE newRegion]

\* mutant: the fetched roster replaces the held one
ReconcileVerbatim(currentRegions, fetched) == fetched

\* mutant: an overridden entry is built from the held entry, not the fetched one
ReconcileKeepsHeld(currentRegions, fetched) ==
  [i \in 1..Len(fetched) |->
     LET newRegion == fetched[i]
         currentRegion == FindById(currentRegions, newRegion.id)
     IN  IF /\ currentRegion # <<>>
            /\ (currentRegion[1].status = "killed" \/ currentRegion[1].status = "down")
         THEN [currentRegion[1] EXCEPT !.status = "killed", !.latency_ms = None]
         ELSE newRegion]

\* the updater loadRegions passes to setRegions
Reconcile(currentRegions, fetched) ==
  [i \in 1..Len(fetched) |->
     LET newRegion == fetched[i]
         currentRegion == FindById(currentRegions, newRegion.id)
     IN  IF /\ currentRegion # <<>>
            /\ (currentRegion[1].status = "killed" \/ currentRegion[1].status = "down")
         THEN [newRegion EXCEPT !.status = "killed", !.latency_ms = None]
         ELSE newRegion]

\* mutant: the local kill sets the status and keeps the latency
KillLocalKeepsLatency(currentRegions, id) ==
  [i \in 1..Len(currentRegions) |->
     IF currentRegions[i].id = id
     THEN [currentRegions[i] EXCEPT !.status = "killed"]
     ELSE currentRegions[i]]

\* the updater handleKill passes to setRegions
KillLocal(currentRegions, id) ==
  [i \in 1..Len(currentRegions) |->
     IF currentRegions[i].id = id
     THEN [currentRegions[i] EXCEPT !.status = "killed", !.latency_ms = None]
     ELSE currentRegions[i]]

\* mutant: the deployed roster goes through the reconciliation
DeployReconciled(currentRegions, deployed) == Reconcile(currentRegions, deployed)

\* setRegions(data.regions) in handleDeploy
DeployRoster(currentRegions, deployed) == deployed

\* regions.filter((r) => r.status === "healthy" && !r.disabled), as the set of ids
ActiveIds(roster) ==
  {roster[i].id : i \in {j \in 1..Len(roster) :
                           roster[j].status = "healthy" /\ ~roster[j].disabled}}

RemoveAt(s, i) == SubSeq(s, 1, i - 1) \o SubSeq(s, i + 1, Len(s))

\* mutant: no clamp
Unclamped(a, b) == b

Min(a, b) == IF a < b THEN a ELSE b

\* a write of the roster: the handler, the roster it found, the response it applied
\* and the time its request was issued
Write(by, previous, data, issued) ==
  IF tracing
  THEN Some([by |-> by, previous |-> previous, data |-> data, issued |-> issued])
  ELSE None

\* the positions at which a roster holds a region id
EntriesOf(roster, id) == {i \in 1..Len(roster) : roster[i].id = id}

\* the roster holds the id, and holds it as killed at every position
MarksKilled(roster, id) ==
  /\ EntriesOf(roster, id) # {}
  /\ \A i \in EntriesOf(roster, id) : roster[i].status = "killed"

\* every position holding the id is killed with latency_ms null
KilledAndCleared(roster, id) ==
  \A i \in EntriesOf(roster, id) :
    roster[i].status = "killed" /\ roster[i].latency_ms = None

\* the ids a roster marks killed
KilledIds(roster) ==
  {roster[i].id : i \in {j \in 1..Len(roster) : MarksKilled(roster, roster[j].id)}}

-----------------------------------------------------------------------------
InitState ==
  /\ regions = <<>>
  /\ mode \in {"mock", "live"}
  /\ deploymentId = IF mode = "mock" THEN "mock-deployment" ELSE Null
  /\ isLoadingRegions = FALSE
  /\ isDeploying = FALSE
  /\ isGenerating = FALSE
  /\ killingRegion = Null
  /\ prompt = <<>>
  /\ lastResult = None
  /\ error = Null
  /\ logs = <<>>
  /\ lastRefreshTimeRef = 0
  /\ loadingLockRef = FALSE
  /\ progressByRegion = <<>>
  /\ progressTimerRef = FALSE
  /\ now = Epoch
  /\ listCalls = <<>>
  /\ deployCalls = 0
  /\ killCalls = <<>>
  /\ inferCalls = <<>>
  /\ killTimers = <<>>
  /\ ticks = 0
  /\ listRequests = <<>>
  /\ markedKilled = {}
  /\ lastWrite = None
  /\ invoked = [loadRegions |-> 0, handleDeploy |-> 0, handleKill |-> 0, setPrompt |-> 0,
                handleGenerate |-> 0, clearLogs |-> 0,
                setRefreshInterval |-> 0, handleManualRefresh |-> 0]

\* the refresh drivers after the first render: Manual, nothing scheduled
DriverIdle ==
  /\ refreshInterval = 0
  /\ intervalTimers = <<>>
  /\ isManualRefreshing = FALSE
  /\ sleepTimer = None
  /\ mounted = TRUE
  /\ manualStart = None

\* the dashboard after its first render
Init == InitState /\ DriverIdle /\ tracing = FALSE

\* the same, keeping the history of roster writes
InitTraced == InitState /\ DriverIdle /\ tracing = TRUE

-----------------------------------------------------------------------------
Invocations ==
  invoked.loadRegions + invoked.handleDeploy + invoked.handleKill
    + invoked.setPrompt + invoked.handleGenerate + invoked.clearLogs
    + invoked.setRefreshInterval + invoked.handleManualRefresh

\* an invocation of a handler, within the explored budget
Invoke(handler) ==
  /\ Invocations < MaxOps
  /\ invoked' = [invoked EXCEPT ![handler] = @ + 1]

-----------------------------------------------------------------------------
(* loadRegions *)

\* mutant: the in-flight flag is not consulted
LoadRegionsSkipsOnCooldown(force) ==
  ~force /\ now - lastRefreshTimeRef < Cooldown

\* mutant: the cooldown applies to forced calls too
LoadRegionsSkipsForcedToo(force) ==
  \/ loadingLockRef /\ ~force
  \/ now - lastRefreshTimeRef < Cooldown

\* the guards of loadRegions: TRUE when the call returns before fetching
LoadRegionsSkips(force) ==
  \/ loadingLockRef /\ ~force
  \/ ~force /\ now - lastRefreshTimeRef < Cooldown

\* loadRegions(force) up to its await; caller is the frame awaiting the promise
LoadRegionsBegin(force, caller) ==
  IF LoadRegionsSkips(force)
  THEN UNCHANGED <<loadingLockRef, isLoadingRegions, listCalls, listRequests>>
  ELSE /\ loadingLockRef' = TRUE
       /\ isLoadingRegions' = TRUE
       /\ listCalls' = Append(listCalls, [now |-> now, force |-> force, caller |-> caller])
       /\ listRequests' = Append(listRequests, [at |-> now, force |-> force])

\* an invocation of loadRegions by a caller that does not await it: the refresh
\* drivers (loadRegions(true) on load and on a manual refresh, loadRegions() on
\* the periodic timer)
loadRegions(force) ==
  /\ Invoke("loadRegions")
  /\ LoadRegionsBegin(force, "none")
  /\ UNCHANGED <<rosterVars, lastRefreshTimeRef, deployVars, killVars, generateVars,
                 prompt, error, logs, fixedVars, driverVars, now>>

\* mutant: the finally of handleDeploy is skipped
DeployHeld == TRUE

\* the finally of handleDeploy: setIsDeploying(false)
DeployReleased == FALSE

\* mutant: the cooldown reference is the time the refresh completed
CompletionStamp(issued) == now

\* lastRefreshTimeRef.current = now, for the now loadRegions read when it began
RefreshStamp(issued) == issued

\* mutant: doSmoothRefresh without its minimum visible duration
RefreshedAlready(elapsed) == TRUE

\* elapsed < MIN_REFRESH_TIME does not hold: doSmoothRefresh does not sleep
RefreshedLongEnough(elapsed) == ~(elapsed < MIN_REFRESH_TIME)

\* doSmoothRefresh from the return of its loadRegions(true), called at start
SmoothResume(start) ==
  LET elapsed == now - start
  IN  IF RefreshedLongEnough(elapsed)
      THEN /\ isManualRefreshing' = FALSE
           /\ UNCHANGED sleepTimer
      ELSE /\ sleepTimer' = Some([at |-> now, ms |-> MIN_REFRESH_TIME - elapsed])
           /\ UNCHANGED isManualRefreshing

\* loadRegions from the settling of fetchRegions to its return, then the rest of
\* the frame that awaited it
LoadRegionsSettle(i, data) ==
  /\ i \in 1..Len(listCalls)
  /\ listCalls' = RemoveAt(listCalls, i)
  /\ IF data.kind = "rejected"
     THEN /\ error' = "Failed to load regions"
          /\ logs' = appendLog(logs, "Failed to load regions")
          /\ UNCHANGED <<deploymentId, regions, lastRefreshTimeRef, lastWrite>>
     ELSE /\ lastWrite' = Write("loadRegions", regions, data, listCalls[i].now)
          /\ deploymentId' = IF Truthy(data.deployment_id)
                             THEN data.deployment_id ELSE deploymentId
          /\ regions' = IF data.kind = "array"
                        THEN Reconcile(regions, data.regions) ELSE <<>>
          /\ lastRefreshTimeRef' = RefreshStamp(listCalls[i].now)
          /\ error' = Null
          /\ UNCHANGED logs
  /\ isLoadingRegions' = FALSE
  /\ loadingLockRef' = FALSE
  /\ isDeploying' = IF listCalls[i].caller = "handleDeploy"
                    THEN DeployReleased ELSE isDeploying
  /\ markedKilled' = markedKilled \cup KilledIds(regions')
  /\ IF listCalls[i].caller = "doSmoothRefresh"
     THEN SmoothResume(listCalls[i].now)
     ELSE UNCHANGED <<isManualRefreshing, sleepTimer>>
  /\ UNCHANGED <<listRequests, deployCalls, killVars, generateVars, prompt, fixedVars,
                 refreshInterval, intervalTimers, mounted, manualStart, now, invoked>>

-----------------------------------------------------------------------------
(* the refresh drivers: the Refresh button, the interval select and its effect *)

\* doSmoothRefreshRef.current(), up to await loadRegions(true) or, when that
\* call returns at once, up to the sleep
doSmoothRefresh ==
  IF isManualRefreshing
  THEN UNCHANGED <<refreshVars, isManualRefreshing, sleepTimer, manualStart>>
  ELSE /\ isManualRefreshing' = TRUE
       /\ manualStart' = Some(now)
       /\ LoadRegionsBegin(TRUE, "doSmoothRefresh")
       /\ sleepTimer' = IF LoadRegionsSkips(TRUE)
                        THEN Some([at |-> now, ms |-> MIN_REFRESH_TIME])
                        ELSE sleepTimer
       /\ UNCHANGED lastRefreshTimeRef

\* the Refresh button
handleManualRefresh ==
  /\ Invoke("handleManualRefresh")
  /\ doSmoothRefresh
  /\ UNCHANGED <<rosterVars, deployVars, killVars, generateVars, prompt, error, logs,
                 fixedVars, refreshInterval, intervalTimers, mounted, now>>

\* the sleep of doSmoothRefresh resolves, then setIsManualRefreshing(false)
SleepFires ==
  /\ sleepTimer # None
  /\ sleepTimer[1].at + sleepTimer[1].ms <= now
  /\ sleepTimer' = None
  /\ isManualRefreshing' = FALSE
  /\ UNCHANGED <<rosterVars, refreshVars, deployVars, killVars, generateVars, prompt, error,
                 logs, fixedVars, refreshInterval, intervalTimers, mounted, manualStart, now,
                 invoked>>

\* mutant: the effect returns no cleanup
EffectLeaks(timers) == timers

\* the cleanup the interval effect returns: clearInterval(interval)
EffectCleanup(timers) == <<>>

\* the interval effect, run after its cleanup when refreshInterval has changed
IntervalEffect(timers, interval) ==
  IF interval = 0
  THEN timers
  ELSE Append(timers, [period |-> interval, due |-> now + interval])

\* the interval select: setRefreshInterval(Number(e.target.value)); the effect
\* runs again only when the value differs from the committed one
setRefreshInterval(v) ==
  /\ Invoke("setRefreshInterval")
  /\ refreshInterval' = v
  /\ intervalTimers' = IF v = refreshInterval
                        THEN intervalTimers
                        ELSE IntervalEffect(EffectCleanup(intervalTimers), v)
  /\ UNCHANGED <<rosterVars, refreshVars, deployVars, killVars, generateVars, prompt, error,
                 logs, fixedVars, isManualRefreshing, sleepTimer, mounted, manualStart, now>>

\* a callback of setInterval: doSmoothRefreshRef.current?.()
IntervalFires(j) ==
  /\ j \in 1..Len(intervalTimers)
  /\ intervalTimers[j].due <= now
  /\ intervalTimers' = [intervalTimers EXCEPT ![j].due = @ + intervalTimers[j].period]
  /\ doSmoothRefresh
  /\ UNCHANGED <<rosterVars, deployVars, killVars, generateVars, prompt, error, logs,
                 fixedVars, refreshInterval, mounted, now, invoked>>

\* the component unmounts: the cleanup of the interval effect runs
unmount ==
  /\ mounted
  /\ mounted' = FALSE
  /\ intervalTimers' = EffectCleanup(intervalTimers)
  /\ UNCHANGED <<rosterVars, refreshVars, deployVars, killVars, generateVars, prompt, error,
                 logs, fixedVars, refreshInterval, isManualRefreshing, sleepTimer, manualStart,
                 now, invoked>>

-----------------------------------------------------------------------------
(* handleDeploy *)

\* mutant: handleDeploy without its guard
DeployNeverBlocked == FALSE

\* the guard of handleDeploy
DeployBlocked == isDeploying

\* handleDeploy up to await deployGlobal()
handleDeploy ==
  /\ Invoke("handleDeploy")
  /\ IF DeployBlocked
     THEN UNCHANGED <<isDeploying, error, logs, deployCalls>>
     ELSE /\ isDeploying' = TRUE
          /\ error' = Null
          /\ logs' = appendLog(logs, "Deploying global infrastructure...")
          /\ deployCalls' = deployCalls + 1
  /\ UNCHANGED <<rosterVars, refreshVars, killVars, generateVars, prompt, fixedVars, driverVars, now>>

\* data?.deployment_id || (MODE === "mock" ? "mock-deployment" : null)
NewDeploymentId(data) ==
  IF Truthy(data.deployment_id) THEN data.deployment_id
  ELSE IF mode = "mock" THEN "mock-deployment" ELSE Null

\* handleDeploy from the settling of deployGlobal to its return, or to its
\* await loadRegions(true)
DeploySettle(data) ==
  /\ deployCalls > 0
  /\ deployCalls' = deployCalls - 1
  /\ IF data.kind = "rejected"
     THEN /\ error' = "Deployment failed"
          /\ logs' = appendLog(logs, "Deploy failed")
          /\ isDeploying' = DeployReleased
          /\ UNCHANGED <<rosterVars, loadingLockRef, isLoadingRegions, listCalls,
                         listRequests>>
     ELSE LET id == NewDeploymentId(data)
              started == IF Truthy(id)
                         THEN appendLog(logs, "Deployment started") ELSE logs
          IN  /\ deploymentId' = IF Truthy(id) THEN id ELSE deploymentId
              /\ IF data.kind = "array"
                 THEN /\ regions' = DeployRoster(regions, data.regions)
                      /\ lastWrite' = Write("handleDeploy", regions, data, now)
                      /\ markedKilled' = KilledIds(regions')
                      /\ logs' = appendLog(started, "Deployed regions")
                      /\ isDeploying' = DeployReleased
                      /\ UNCHANGED <<loadingLockRef, isLoadingRegions, listCalls,
                                     listRequests>>
                 ELSE /\ LoadRegionsBegin(TRUE, "handleDeploy")
                      /\ logs' = started
                      /\ markedKilled' = KilledIds(regions)
                      /\ UNCHANGED <<regions, lastWrite, isDeploying>>
              /\ UNCHANGED error
  /\ UNCHANGED <<lastRefreshTimeRef, killVars, generateVars, prompt, fixedVars, driverVars, now, invoked>>

-----------------------------------------------------------------------------
(* handleKill *)

\* the guard of handleKill
KillBlocked(region) == isKillDisabled(region) \/ Truthy(killingRegion)

\* handleKill(region) up to await killRegion(region.id); region is the roster
\* entry whose button was pressed
handleKill(region) ==
  /\ Invoke("handleKill")
  /\ IF KillBlocked(region)
     THEN UNCHANGED <<killingRegion, logs, error, killCalls>>
     ELSE /\ killingRegion' = region.id
          /\ logs' = appendLog(logs, "Killing region")
          /\ error' = Null
          /\ killCalls' = Append(killCalls, region)
  /\ UNCHANGED <<rosterVars, refreshVars, deployVars, killTimers, generateVars,
                 prompt, fixedVars, driverVars, now>>

\* mutant: the finally block leaves killingRegion as it is
KillHeld(held) == held

\* setKillingRegion(null) in the finally block of handleKill
KillReleased(held) == Null

\* handleKill from the settling of killRegion to its return
KillSettle(i, resolved) ==
  /\ i \in 1..Len(killCalls)
  /\ killCalls' = RemoveAt(killCalls, i)
  /\ IF resolved
     THEN /\ regions' = KillLocal(regions, killCalls[i].id)
          /\ lastWrite' = Write("handleKill", regions, killCalls[i], now)
          /\ logs' = appendLog(logs, "Region killed")
          /\ killTimers' = Append(killTimers, now + KillRefreshDelay)
          /\ UNCHANGED error
     ELSE /\ error' = "Failed to kill region"
          /\ logs' = appendLog(logs, "Kill failed")
          /\ UNCHANGED <<regions, killTimers, lastWrite>>
  /\ killingRegion' = KillReleased(killingRegion)
  /\ markedKilled' = markedKilled \cup KilledIds(regions')
  /\ UNCHANGED <<deploymentId, refreshVars, deployVars, generateVars, prompt, fixedVars, driverVars,
                 now, invoked>>

\* the timeout set by handleKill fires: loadRegions(true)
KillTimerFires(j) ==
  /\ j \in 1..Len(killTimers)
  /\ killTimers[j] <= now
  /\ killTimers' = RemoveAt(killTimers, j)
  /\ LoadRegionsBegin(TRUE, "none")
  /\ UNCHANGED <<rosterVars, lastRefreshTimeRef, deployVars, killingRegion, killCalls,
                 generateVars, prompt, error, logs, fixedVars, driverVars, now, invoked>>

-----------------------------------------------------------------------------
(* handleGenerate *)

\* the prompt box's onChange
setPrompt(p) ==
  /\ Invoke("setPrompt")
  /\ p # prompt
  /\ prompt' = p
  /\ UNCHANGED <<rosterVars, refreshVars, deployVars, killVars, generateVars,
                 error, logs, fixedVars, driverVars, now>>

\* mutant: the guard of handleGenerate without its in-flight test
GenerateBlockedWhenBlank == Trim(prompt) = <<>>

\* mutant: handleGenerate also returns when no region is healthy and enabled
GenerateBlockedWithoutRegions ==
  Trim(prompt) = <<>> \/ isGenerating \/ ActiveIds(regions) = {}

\* the guard of handleGenerate
GenerateBlocked == Trim(prompt) = <<>> \/ isGenerating

\* handleGenerate up to await infer(trimmedPrompt)
handleGenerate ==
  /\ Invoke("handleGenerate")
  /\ IF GenerateBlocked
     THEN UNCHANGED <<generateVars, error, logs>>
     ELSE /\ isGenerating' = TRUE
          /\ error' = Null
          /\ lastResult' = None
          /\ \E initialProgress \in [ActiveIds(regions) -> ProgressSeeds] :
               progressByRegion' = initialProgress
          /\ progressTimerRef' = (ActiveIds(regions) # {})
          /\ ticks' = 0
          /\ logs' = appendLog(logs, "Generating")
          /\ inferCalls' = Append(inferCalls, Trim(prompt))
  /\ UNCHANGED <<rosterVars, refreshVars, deployVars, killVars, prompt, fixedVars, driverVars, now>>

\* the interval callback set by handleGenerate
ProgressTick ==
  /\ progressTimerRef
  /\ ticks < MaxTicks
  /\ ticks' = ticks + 1
  /\ \E step \in [DOMAIN progressByRegion -> ProgressSteps] :
       progressByRegion' =
         [id \in DOMAIN progressByRegion |->
            IF progressByRegion[id] < ProgressCap
            THEN Min(ProgressCap, progressByRegion[id] + step[id])
            ELSE progressByRegion[id]]
  /\ UNCHANGED <<rosterVars, refreshVars, deployVars, killVars, isGenerating,
                 inferCalls, lastResult, progressTimerRef, prompt, error, logs, fixedVars, driverVars,
                 now, invoked>>

\* mutant: the try block of handleGenerate logs nothing
GenerateLogsNothing(prev, data) == prev

\* the log lines of the try block of handleGenerate
GenerateLogs(prev, data) ==
  LET piped == IF ~Truthy(data.error) /\ Len(data.results) > 0
               THEN appendLog(prev, "Multi-region pipeline") ELSE prev
  IN  IF Truthy(data.error)
      THEN appendLog(piped, "Generation error")
      ELSE appendLog(piped, "Generated from")

\* mutant: the finally block leaves the progress map as it is
KeptProgress(prev) == prev

\* setProgressByRegion({}) in the finally block of handleGenerate
ClearedProgress(prev) == <<>>

\* handleGenerate from the settling of infer to its return
GenerateSettle(i, data) ==
  /\ i \in 1..Len(inferCalls)
  /\ inferCalls' = RemoveAt(inferCalls, i)
  /\ IF data.kind = "rejected"
     THEN /\ lastResult' = Some([prompt |-> inferCalls[i], error |-> "Service unavailable",
                                 results |-> <<>>, region_name |-> Null,
                                 latency_ms |-> None])
          /\ error' = "Generation failed"
          /\ logs' = appendLog(logs, "Generation failed")
     ELSE /\ lastResult' = Some([prompt |-> inferCalls[i], error |-> data.error,
                                 results |-> data.results,
                                 region_name |-> data.region_name,
                                 latency_ms |-> data.latency_ms])
          /\ logs' = GenerateLogs(logs, data)
          /\ UNCHANGED error
  /\ progressTimerRef' = FALSE
  /\ progressByRegion' = ClearedProgress(progressByRegion)
  /\ isGenerating' = FALSE
  /\ UNCHANGED <<rosterVars, refreshVars, deployVars, killVars, ticks, prompt, fixedVars, driverVars,
                 now, invoked>>

-----------------------------------------------------------------------------
(* pipelineSummary: the value memoised from lastResult. Latencies are whole   *)
(* milliseconds; a results field that is absent is the empty list, which the *)
(* code treats alike.                                                        *)

\* mutant: a latency of 0 does not count as a number
IsPositiveNumber(l) == l # None /\ l[1] # 0

\* typeof r.latency_ms === "number"
IsNumber(l) == l # None

\* l || fallback, for l a number, null or undefined
OrNumber(l, fallback) == IF l = None \/ l[1] = 0 THEN fallback ELSE l[1]

\* Number.MAX_SAFE_INTEGER, within the integers of the checker: above every latency
MAX_SAFE_INTEGER == 2147483647

\* mutant: the quotient truncated
TruncDiv(p, q) == p \div q

\* Math.round(p / q) for p >= 0 and q > 0
RoundDiv(p, q) == (2 * p + q) \div (2 * q)

\* lastResult.results.filter((r) => typeof r.latency_ms === "number")
ValidResults(results) == SelectSeq(results, LAMBDA r : IsNumber(r.latency_ms))

\* the loop over valid from its k-th entry on: <<fastest, sum>>
RECURSIVE SummaryLoop(_, _, _, _)
SummaryLoop(valid, k, fastest, sum) ==
  IF k > Len(valid) THEN <<fastest, sum>>
  ELSE LET r == valid[k]
           lat == OrNumber(r.latency_ms, 0)
           next == IF OrNumber(r.latency_ms, MAX_SAFE_INTEGER)
                        < OrNumber(fastest.latency_ms, MAX_SAFE_INTEGER)
                   THEN r ELSE fastest
       IN  SummaryLoop(valid, k + 1, next, sum + lat)

\* Math.min(...valid.map((r) => r.latency_ms || 0)) for a non-empty valid
MathMin(valid) ==
  CHOOSE m \in {OrNumber(valid[i].latency_ms, 0) : i \in 1..Len(valid)} :
    \A i \in 1..Len(valid) : m <= OrNumber(valid[i].latency_ms, 0)

\* the summary of a lastResult (an option), as an option
pipelineSummary(result) ==
  IF result = None \/ Len(result[1].results) = 0 THEN None
  ELSE LET valid == ValidResults(result[1].results)
       IN  IF Len(valid) = 0 THEN None
           ELSE LET count == Len(valid)
                    loop == SummaryLoop(valid, 1, valid[1], 0)
                    fastest == loop[1]
                    sum == loop[2]
                IN  Some([count |-> count,
                          fastestName |-> IF Truthy(fastest.region_name)
                                          THEN fastest.region_name
                                          ELSE fastest.region_slug,
                          fastestLatency |-> OrNumber(fastest.latency_ms, 0),
                          averageLatency |-> RoundDiv(sum, count),
                          parallelTime |-> MathMin(valid)])

-----------------------------------------------------------------------------
(* the Clear button of the event log *)

clearLogs ==
  /\ Invoke("clearLogs")
  /\ logs # <<>>
  /\ logs' = <<>>
  /\ UNCHANGED <<rosterVars, refreshVars, deployVars, killVars, generateVars,
                 prompt, error, fixedVars, driverVars, now>>

-----------------------------------------------------------------------------
(* time *)

\* the clock moves on by step, up to elapsed after the session began
Advance(step, elapsed) ==
  /\ now + step <= Epoch + elapsed
  /\ now' = now + step
  /\ UNCHANGED <<rosterVars, refreshVars, deployVars, killVars, generateVars,
                 prompt, error, logs, fixedVars, driverVars, invoked>>

Tick == Advance(TimeStep, MaxElapsed)

-----------------------------------------------------------------------------
\* the handlers and continuations that write the roster and the refresh state
RosterNext ==
  \/ \E force \in BOOLEAN : loadRegions(force)
  \/ \E i \in 1..Len(listCalls), data \in ListResponses : LoadRegionsSettle(i, data)
  \/ handleDeploy
  \/ \E data \in DeployResponses : DeploySettle(data)
  \/ \E i \in 1..Len(regions) : handleKill(regions[i])
  \/ \E i \in 1..Len(killCalls), resolved \in BOOLEAN : KillSettle(i, resolved)
  \/ \E j \in 1..Len(killTimers) : KillTimerFires(j)
  \/ Tick

\* the generation pipeline and the event log's Clear button
GenerateNext ==
  \/ \E p \in Prompts : setPrompt(p)
  \/ handleGenerate
  \/ ProgressTick
  \/ \E i \in 1..Len(inferCalls), data \in InferResponses : GenerateSettle(i, data)
  \/ clearLogs

Next == RosterNext \/ GenerateNext

\* the whole dashboard
Spec == Init /\ [][Next]_vars

\* the whole dashboard, observed with the history of roster writes
SpecTraced == InitTraced /\ [][Next]_vars

-----------------------------------------------------------------------------
(* The reconciliation step on its own: any held roster, one refresh in       *)
(* flight, any fetched roster.                                               *)

\* status and latency as a region may carry them
Healths ==
  { <<"starting", None>>, <<"healthy", Some(80)>>, <<"down", None>>,
    <<"killed", None>>, <<"killed", Some(80)>> }

RegionsOf(origin, disabled) ==
  {Region(id, h[1], h[2], disabled, origin) : id \in Ids, h \in Healths}

RostersOf(origin, disabled) ==
  UNION {[1..n -> RegionsOf(origin, disabled)] : n \in 0..MaxRoster}

\* rosters the dashboard may hold, and rosters a list response may carry
PreviousRosters == RostersOf("held", FALSE)
FetchedRosters == RostersOf("gw", TRUE)

InitReconcile ==
  /\ regions \in PreviousRosters
  /\ mode = "mock"
  /\ deploymentId = "mock-deployment"
  /\ isLoadingRegions = TRUE
  /\ isDeploying = FALSE
  /\ isGenerating = FALSE
  /\ killingRegion = Null
  /\ prompt = <<>>
  /\ lastResult = None
  /\ error = Null
  /\ logs = <<>>
  /\ lastRefreshTimeRef = 0
  /\ loadingLockRef = TRUE
  /\ progressByRegion = <<>>
  /\ progressTimerRef = FALSE
  /\ now = Epoch
  /\ listCalls = <<[now |-> Epoch, force |-> TRUE, caller |-> "none"]>>
  /\ deployCalls = 0
  /\ killCalls = <<>>
  /\ inferCalls = <<>>
  /\ killTimers = <<>>
  /\ ticks = 0
  /\ listRequests = <<[at |-> Epoch, force |-> TRUE]>>
  /\ markedKilled = KilledIds(regions)
  /\ lastWrite = None
  /\ tracing = TRUE
  /\ DriverIdle
  /\ invoked = [loadRegions |-> 1, handleDeploy |-> 0, handleKill |-> 0, setPrompt |-> 0,
                handleGenerate |-> 0, clearLogs |-> 0,
                setRefreshInterval |-> 0, handleManualRefresh |-> 0]

ReconcileNext ==
  \/ \E fetched \in FetchedRosters : LoadRegionsSettle(1, Body("array", Null, fetched))
  \/ LoadRegionsSettle(1, Body("array", Null, regions))

SpecReconcile == InitReconcile /\ [][ReconcileNext]_vars

-----------------------------------------------------------------------------
(* The pipeline summary on its own: a generate call in flight, any list of   *)
(* per-region results in its response.                                       *)

\* the regions of a result list, by position
ResultNames == <<"A", "B", "C", "D", "E">>

\* the latencies a per-region result may carry; None for a failed region
ResultLatencies == {None, Some(0), Some(80), Some(81), Some(120)}

ResultLists ==
  UNION { { [i \in 1..n |-> RegionResult(ResultNames[i], f[i],
                                          IF f[i] = None THEN "timeout" ELSE Null)] :
              f \in [1..n -> ResultLatencies] } :
          n \in 0..Min(MaxResults, Len(ResultNames)) }

InitAggregate ==
  /\ regions = <<>>
  /\ mode = "mock"
  /\ deploymentId = "mock-deployment"
  /\ isLoadingRegions = FALSE
  /\ isDeploying = FALSE
  /\ isGenerating = TRUE
  /\ killingRegion = Null
  /\ prompt = <<"a">>
  /\ lastResult = None
  /\ error = Null
  /\ logs = <<"Generating">>
  /\ lastRefreshTimeRef = 0
  /\ loadingLockRef = FALSE
  /\ progressByRegion = <<>>
  /\ progressTimerRef = FALSE
  /\ now = Epoch
  /\ listCalls = <<>>
  /\ deployCalls = 0
  /\ killCalls = <<>>
  /\ inferCalls = << <<"a">> >>
  /\ killTimers = <<>>
  /\ ticks = 0
  /\ listRequests = <<>>
  /\ markedKilled = {}
  /\ lastWrite = None
  /\ tracing = FALSE
  /\ DriverIdle
  /\ invoked = [loadRegions |-> 0, handleDeploy |-> 0, handleKill |-> 0, setPrompt |-> 1,
                handleGenerate |-> 1, clearLogs |-> 0,
                setRefreshInterval |-> 0, handleManualRefresh |-> 0]

AggregateNext ==
  \E results \in ResultLists :
    GenerateSettle(1, InferBody("body", "A", Some(80), Null, results))

SpecAggregate == InitAggregate /\ [][AggregateNext]_vars

-----------------------------------------------------------------------------
(* The kill control on its own: any roster shown, disabled regions included, *)
(* and the Kill button of any of its regions pressed.                        *)

KillRosters ==
  UNION {[1..n -> RegionsOf("held", FALSE) \cup RegionsOf("held", TRUE)] : n \in 0..MaxRoster}

InitKill ==
  /\ regions \in KillRosters
  /\ mode = "mock"
  /\ deploymentId = "mock-deployment"
  /\ isLoadingRegions = FALSE
  /\ isDeploying = FALSE
  /\ isGenerating = FALSE
  /\ killingRegion = Null
  /\ prompt = <<>>
  /\ lastResult = None
  /\ error = Null
  /\ logs = <<>>
  /\ lastRefreshTimeRef = 0
  /\ loadingLockRef = FALSE
  /\ progressByRegion = <<>>
  /\ progressTimerRef = FALSE
  /\ now = Epoch
  /\ listCalls = <<>>
  /\ deployCalls = 0
  /\ killCalls = <<>>
  /\ inferCalls = <<>>
  /\ killTimers = <<>>
  /\ ticks = 0
  /\ listRequests = <<>>
  /\ markedKilled = KilledIds(regions)
  /\ lastWrite = None
  /\ tracing = FALSE
  /\ DriverIdle
  /\ invoked = [loadRegions |-> 0, handleDeploy |-> 0, handleKill |-> 0, setPrompt |-> 0,
                handleGenerate |-> 0, clearLogs |-> 0,
                setRefreshInterval |-> 0, handleManualRefresh |-> 0]

KillNext ==
  \/ \E i \in 1..Len(regions) : handleKill(regions[i])
  \/ \E i \in 1..Len(killCalls), resolved \in BOOLEAN : KillSettle(i, resolved)

SpecKill == InitKill /\ [][KillNext]_vars

-----------------------------------------------------------------------------
(* The continuations on their own: any held roster, an event log of any      *)
(* length it may have, a refresh and a deploy in flight, any response.       *)

\* event logs of earlier entries: empty, one short of LogKeep, LogKeep
EarlierLogs == {[i \in 1..n |-> "earlier"] : n \in {0, LogKeep - 1, LogKeep}}

InitSettle ==
  /\ regions \in PreviousRosters
  /\ mode \in {"mock", "live"}
  /\ deploymentId = IF mode = "mock" THEN "mock-deployment" ELSE Null
  /\ isLoadingRegions = TRUE
  /\ isDeploying = TRUE
  /\ isGenerating = FALSE
  /\ killingRegion = Null
  /\ prompt = <<>>
  /\ lastResult = None
  /\ error = Null
  /\ logs \in EarlierLogs
  /\ lastRefreshTimeRef = 0
  /\ loadingLockRef = TRUE
  /\ progressByRegion = <<>>
  /\ progressTimerRef = FALSE
  /\ now = Epoch
  /\ listCalls = <<[now |-> Epoch, force |-> TRUE, caller |-> "none"]>>
  /\ deployCalls = 1
  /\ killCalls = <<>>
  /\ inferCalls = <<>>
  /\ killTimers = <<>>
  /\ ticks = 0
  /\ listRequests = <<[at |-> Epoch, force |-> TRUE]>>
  /\ markedKilled = KilledIds(regions)
  /\ lastWrite = None
  /\ tracing = FALSE
  /\ DriverIdle
  /\ invoked = [loadRegions |-> 1, handleDeploy |-> 1, handleKill |-> 0, setPrompt |-> 0,
                handleGenerate |-> 0, clearLogs |-> 0,
                setRefreshInterval |-> 0, handleManualRefresh |-> 0]

SettleNext ==
  \/ \E i \in 1..Len(listCalls), data \in ListResponses : LoadRegionsSettle(i, data)
  \/ \E data \in DeployResponses : DeploySettle(data)

SpecSettle == InitSettle /\ [][SettleNext]_vars

-----------------------------------------------------------------------------
(* The generation pipeline on its own: a generate call in flight over a      *)
(* roster, its progress map at any values the interval may have brought it   *)
(* to.                                                                       *)

\* values a region's progress may have while the call is outstanding
ProgressValues == {5, 19, 50, 81, 90, 94, ProgressCap}

InitGenerate ==
  /\ regions \in {<<Healthy("r1"), Healthy("r2")>>, <<Down("r1"), Healthy("r2")>>}
  /\ mode = "mock"
  /\ deploymentId = "mock-deployment"
  /\ isLoadingRegions = FALSE
  /\ isDeploying = FALSE
  /\ isGenerating = TRUE
  /\ killingRegion = Null
  /\ prompt = <<"a">>
  /\ lastResult = None
  /\ error = Null
  /\ logs = <<"Generating">>
  /\ lastRefreshTimeRef = 0
  /\ loadingLockRef = FALSE
  /\ progressByRegion \in [ActiveIds(regions) -> ProgressValues]
  /\ progressTimerRef = TRUE
  /\ now = Epoch
  /\ listCalls = <<>>
  /\ deployCalls = 0
  /\ killCalls = <<>>
  /\ inferCalls = <<prompt>>
  /\ killTimers = <<>>
  /\ ticks = 0
  /\ listRequests = <<>>
  /\ markedKilled = {}
  /\ lastWrite = None
  /\ tracing = FALSE
  /\ DriverIdle
  /\ invoked = [loadRegions |-> 0, handleDeploy |-> 0, handleKill |-> 0, setPrompt |-> 1,
                handleGenerate |-> 1, clearLogs |-> 0,
                setRefreshInterval |-> 0, handleManualRefresh |-> 0]

PipelineNext ==
  \/ handleGenerate
  \/ ProgressTick
  \/ \E i \in 1..Len(inferCalls), data \in InferResponses : GenerateSettle(i, data)

SpecGenerate == InitGenerate /\ [][PipelineNext]_vars

-----------------------------------------------------------------------------
(* The refresh drivers: the interval select, its timer, the Refresh button   *)
(* and the smooth refresh they share, next to a deploy that may be started   *)
(* at any time.                                                              *)

\* the options of the interval select that are followed: Manual, 5s, 10s
RefreshIntervals == {0, 5000, 10000}

\* the list responses that are followed
DriverResponses ==
  {Body("array", Null, <<Healthy("r1"), Healthy("r2")>>), Body("rejected", Null, <<>>)}

\* the deploy responses that are followed: one that carries no roster, so that
\* handleDeploy goes on to loadRegions(true), and a rejection
DriverDeployResponses ==
  {Body("malformed", Null, <<>>), Body("rejected", Null, <<>>)}

\* the dashboard some time after its first render: the interval select is at
\* Manual, or was set to 5s and the timer is about to fire for the first time
InitDriver ==
  /\ InitState
  /\ mode = "live"
  /\ tracing = FALSE
  /\ refreshInterval \in {0, 5000}
  /\ intervalTimers = IF refreshInterval = 0
                      THEN <<>>
                      ELSE <<[period |-> refreshInterval, due |-> Epoch + DriverStep]>>
  /\ isManualRefreshing = FALSE
  /\ sleepTimer = None
  /\ mounted = TRUE
  /\ manualStart = None

DriverNext ==
  \/ mounted /\ \E v \in RefreshIntervals : setRefreshInterval(v)
  \/ mounted /\ handleManualRefresh
  \/ mounted /\ handleDeploy
  \/ unmount
  \/ \E j \in 1..Len(intervalTimers) : IntervalFires(j)
  \/ SleepFires
  \/ \E i \in 1..Len(listCalls), data \in DriverResponses : LoadRegionsSettle(i, data)
  \/ \E data \in DriverDeployResponses : DeploySettle(data)
  \/ Advance(DriverStep, DriverElapsed)

SpecDriver == InitDriver /\ [][DriverNext]_vars

-----------------------------------------------------------------------------
(* The refreshes on their own: from the first render, forced and non-forced  *)
(* calls of loadRegions, overlapping or not, and their responses in any      *)
(* order.                                                                    *)

RefreshNext ==
  \/ \E force \in BOOLEAN : loadRegions(force)
  \/ \E i \in 1..Len(listCalls), data \in ListResponses : LoadRegionsSettle(i, data)
  \/ Tick

SpecRefresh == Init /\ [][RefreshNext]_vars

-----------------------------------------------------------------------------
(* The generation result as it is summarised: a generate call in flight, and *)
(* a response that carries an error field or not, next to any list of        *)
(* per-region results, or a rejection.                                       *)

\* the error field of a body: absent, or the gateway's message
BodyErrors == {Null, "no healthy regions"}

SummaryNext ==
  \/ \E results \in ResultLists, err \in BodyErrors :
       GenerateSettle(1, InferBody("body", "A", Some(80), err, results))
  \/ GenerateSettle(1, InferBody("rejected", Null, None, Null, <<>>))

SpecSummary == InitAggregate /\ [][SummaryNext]_vars

-----------------------------------------------------------------------------
(* The local kill on its own: a kill call in flight for a region whose Kill  *)
(* button was enabled when it was pressed, and any roster held when the call *)
(* settles, with or without that region.                                     *)

\* the regions a kill call may be outstanding for
KillTargets == {Region(id, "healthy", Some(80), FALSE, "held") : id \in Ids}

InitKillFrame ==
  /\ regions \in KillRosters
  /\ mode = "mock"
  /\ deploymentId = "mock-deployment"
  /\ isLoadingRegions = FALSE
  /\ isDeploying = FALSE
  /\ isGenerating = FALSE
  /\ killCalls \in {<<t>> : t \in KillTargets}
  /\ killingRegion = killCalls[1].id
  /\ prompt = <<>>
  /\ lastResult = None
  /\ error = Null
  /\ logs = <<"Killing region">>
  /\ lastRefreshTimeRef = 0
  /\ loadingLockRef = FALSE
  /\ progressByRegion = <<>>
  /\ progressTimerRef = FALSE
  /\ now = Epoch
  /\ listCalls = <<>>
  /\ deployCalls = 0
  /\ inferCalls = <<>>
  /\ killTimers = <<>>
  /\ ticks = 0
  /\ listRequests = <<>>
  /\ markedKilled = KilledIds(regions)
  /\ lastWrite = None
  /\ tracing = TRUE
  /\ DriverIdle
  /\ invoked = [loadRegions |-> 0, handleDeploy |-> 0, handleKill |-> 1, setPrompt |-> 0,
                handleGenerate |-> 0, clearLogs |-> 0,
                setRefreshInterval |-> 0, handleManualRefresh |-> 0]

KillFrameNext == \E resolved \in BOOLEAN : KillSettle(1, resolved)

SpecKillFrame == InitKillFrame /\ [][KillFrameNext]_vars

-----------------------------------------------------------------------------
(* Generation from its start: any prompt typed, any roster held, healthy     *)
(* regions or none, disabled or not; Generate and Kill pressed in any order. *)

\* a region as the dashboard may hold it when Generate is pressed
StartRegions ==
  {Region(id, h[1], h[2], disabled, "held") :
     id \in Ids, h \in {<<"healthy", Some(80)>>, <<"killed", None>>}, disabled \in BOOLEAN}

StartRosters == UNION {[1..n -> StartRegions] : n \in 0..MaxRoster}

InitGenerateStart ==
  /\ regions \in StartRosters
  /\ mode = "mock"
  /\ deploymentId = "mock-deployment"
  /\ isLoadingRegions = FALSE
  /\ isDeploying = FALSE
  /\ isGenerating = FALSE
  /\ killingRegion = Null
  /\ prompt \in Prompts
  /\ lastResult = None
  /\ error = Null
  /\ logs = <<>>
  /\ lastRefreshTimeRef = 0
  /\ loadingLockRef = FALSE
  /\ progressByRegion = <<>>
  /\ progressTimerRef = FALSE
  /\ now = Epoch
  /\ listCalls = <<>>
  /\ deployCalls = 0
  /\ killCalls = <<>>
  /\ inferCalls = <<>>
  /\ killTimers = <<>>
  /\ ticks = 0
  /\ listRequests = <<>>
  /\ markedKilled = KilledIds(regions)
  /\ lastWrite = None
  /\ tracing = FALSE
  /\ DriverIdle
  /\ invoked = [loadRegions |-> 0, handleDeploy |-> 0, handleKill |-> 0, setPrompt |-> 0,
                handleGenerate |-> 0, clearLogs |-> 0,
                setRefreshInterval |-> 0, handleManualRefresh |-> 0]

GenerateStartNext ==
  \/ handleGenerate
  \/ ProgressTick
  \/ \E i \in 1..Len(inferCalls), data \in InferResponses : GenerateSettle(i, data)
  \/ \E i \in 1..Len(regions) : handleKill(regions[i])
  \/ \E i \in 1..Len(killCalls), resolved \in BOOLEAN : KillSettle(i, resolved)

SpecGenerateStart == InitGenerateStart /\ [][GenerateStartNext]_vars

-----------------------------------------------------------------------------
(* Vocabulary of the properties. *)

\* the writes of the roster recorded by lastWrite (none or one) made by a handler
WritesBy(handler) == {w \in Range(lastWrite) : w.by = handler}

\* the recorded writes in which loadRegions reconciled an array of regions
Reconciliations == {w \in WritesBy("loadRegions") : w.data.kind = "array"}

-----------------------------------------------------------------------------
(* C1. Override law: whenever the reconciliation step of loadRegions is      *)
(* applied to a held roster that marks region X killed (X is held, and held   *)
(* as killed at every position) and to a fetched roster containing X with     *)
(* any status and latency, the roster it produces holds X, and holds it as    *)
(* killed with latency_ms null.                                               *)
C1_OverrideLaw ==
  \A w \in Reconciliations : \A X \in Ids :
    (MarksKilled(w.previous, X) /\ EntriesOf(w.data.regions, X) # {})
      => (EntriesOf(regions, X) # {} /\ KilledAndCleared(regions, X))

\* a reconciliation that overrode a region the gateway reported healthy with a
\* latency
C1_Witness ==
  \E w \in Reconciliations : \E i \in 1..Len(regions) :
    /\ MarksKilled(w.previous, regions[i].id)
    /\ w.data.regions[i].status = "healthy"
    /\ w.data.regions[i].latency_ms # None
    /\ regions[i].status = "killed"
    /\ regions[i].latency_ms = None

-----------------------------------------------------------------------------
(* C4. Reconciling a roster R with itself (previous = R, fetched = R).       *)

\* the recorded reconciliations whose fetched roster is the held roster
SelfReconciliations == {w \in Reconciliations : w.data.regions = w.previous}

\* every entry whose id is first held by a killed or down entry is itself
\* killed with latency_ms null
Settled(R) ==
  \A i \in 1..Len(R) :
    LET first == R[CHOOSE j \in EntriesOf(R, R[i].id) :
                     \A k \in EntriesOf(R, R[i].id) : j <= k]
    IN  (first.status = "killed" \/ first.status = "down")
          => (R[i].status = "killed" /\ R[i].latency_ms = None)

(* C4 as amended: reconciling R with itself yields exactly R if and only if  *)
(* every entry of R whose id is first held in R by a killed or down entry is  *)
(* itself killed with latency_ms null (for a roster of distinct ids: no      *)
(* region is down and every killed region has latency_ms null).              *)
C4_IdempotentWhenSettled ==
  \A w \in SelfReconciliations : (regions = w.previous) <=> Settled(w.previous)

(* C4 as stated: reconciling any roster R with itself yields exactly R.      *)
C4_Idempotent ==
  \A w \in SelfReconciliations : regions = w.previous

\* a roster holding a killed region was reconciled with itself and came back
\* unchanged
C4_Witness ==
  \E w \in SelfReconciliations :
    /\ regions = w.previous
    /\ Len(regions) = MaxRoster
    /\ \E i \in 1..Len(regions) : regions[i].status = "killed"
    /\ \E i \in 1..Len(regions) : regions[i].status = "healthy"

-----------------------------------------------------------------------------
(* C2. Kill persistence: a region the roster has marked killed since the     *)
(* last deploy response is never held with a status other than killed,       *)
(* whatever refreshes complete in between (forced or not; successful,        *)
(* failed, malformed, or omitting the region).                               *)
C2_KillPersists ==
  \A X \in markedKilled : \A i \in EntriesOf(regions, X) : regions[i].status = "killed"

-----------------------------------------------------------------------------
(* C3. Kill versus stale refresh: whenever a list response reporting X as    *)
(* healthy is reconciled while the roster marks X killed - in particular     *)
(* when its call was issued before the kill was applied - the entry of X in  *)
(* the roster afterwards is the fetched entry with status killed and         *)
(* latency_ms null: the reconciliation reads the roster held when the        *)
(* response is applied.                                                      *)
C3_StaleRefreshKeepsKill ==
  \A w \in Reconciliations : \A i \in 1..Len(w.data.regions) :
    (w.data.regions[i].status = "healthy" /\ MarksKilled(w.previous, w.data.regions[i].id))
      => /\ Len(regions) = Len(w.data.regions)
         /\ regions[i] = [w.data.regions[i] EXCEPT !.status = "killed",
                                                    !.latency_ms = None]

\* a refresh issued strictly before a kill was applied came back reporting the
\* killed region healthy, and the region is still killed
C3_Witness ==
  \E w \in Reconciliations : \E j \in 1..Len(killTimers) : \E i \in 1..Len(regions) :
    /\ killTimers[j] - KillRefreshDelay > w.issued
    /\ MarksKilled(w.previous, regions[i].id)
    /\ w.data.regions[i].status = "healthy"
    /\ regions[i].status = "killed"
    /\ regions[i].latency_ms = None

-----------------------------------------------------------------------------
(* C5. Deploy law: after handleDeploy applies a deploy response carrying a   *)
(* roster D, the roster equals D exactly, whatever roster was held before,   *)
(* killed regions included.                                                  *)
C5_DeployLaw ==
  \A w \in WritesBy("handleDeploy") : regions = w.data.regions

\* a deploy replaced a roster that marked a region killed, and the region is
\* healthy in the roster now
C5_Witness ==
  \E w \in WritesBy("handleDeploy") : \E i \in 1..Len(regions) :
    /\ MarksKilled(w.previous, regions[i].id)
    /\ regions[i].status = "healthy"
    /\ regions[i].latency_ms # None

-----------------------------------------------------------------------------
(* C6. Single-flight law: at most one infer call, one deployGlobal call and  *)
(* one killRegion call is outstanding at any time, each exactly while its    *)
(* handler's busy flag is set, so an invocation of a guarded handler fired   *)
(* before the previous one resolves reaches the gateway no second time.      *)
C6_SingleFlight ==
  /\ Len(inferCalls) <= 1
  /\ deployCalls <= 1
  /\ Len(killCalls) <= 1
  /\ isGenerating <=> Len(inferCalls) = 1
  /\ Truthy(killingRegion) <=> Len(killCalls) = 1
  /\ isDeploying <=> \/ deployCalls = 1
                     \/ \E i \in 1..Len(listCalls) : listCalls[i].caller = "handleDeploy"

\* handleDeploy was invoked twice, the first invocation's call is outstanding
\* and is the only one made
C6_Witness ==
  /\ invoked.handleDeploy = 2
  /\ deployCalls = 1
  /\ logs = <<"Deploying global infrastructure...">>

-----------------------------------------------------------------------------
(* C7. Throttle law: list calls started by non-forced loadRegions calls are  *)
(* at least the cooldown apart, whatever became of the earlier one.          *)
C7_Throttle ==
  \A i, j \in 1..Len(listRequests) :
    (i < j /\ ~listRequests[i].force /\ ~listRequests[j].force)
      => listRequests[j].at - listRequests[i].at >= Cooldown

-----------------------------------------------------------------------------
(* C8 as stated: at every moment at most one list call is outstanding.       *)
C8_OneOutstanding == Len(listCalls) <= 1

(* C8 as amended: a list call started while the in-flight flag is set is     *)
(* always a forced one (a non-forced loadRegions issued then starts none),   *)
(* and a forced loadRegions issued while the flag is set does start a further *)
(* call: force bypasses the in-flight flag as well as the cooldown.          *)
C8_ForceBypassesFlag ==
  [][ /\ (loadingLockRef /\ listRequests' # listRequests)
          => listRequests'[Len(listRequests')].force
      /\ (loadingLockRef /\ (loadRegions(TRUE) \/ \E j \in 1..Len(killTimers) : KillTimerFires(j)))
          => Len(listCalls') = Len(listCalls) + 1 ]_vars

\* of three loadRegions calls none of which has settled, a forced one started a
\* second list call and one started none
C8_Witness ==
  /\ invoked.loadRegions = 3
  /\ Len(listRequests) = 2
  /\ Len(listCalls) = 2
  /\ listCalls[2].force
  /\ lastRefreshTimeRef = 0

-----------------------------------------------------------------------------
(* C9. A forced loadRegions issued when no list call is outstanding starts   *)
(* one, however recently the last completed refresh started.                 *)
C9_ForcedAlwaysFetches ==
  [][ (listCalls = <<>> /\ (loadRegions(TRUE) \/ \E j \in 1..Len(killTimers) : KillTimerFires(j)))
        => /\ listCalls' = <<[now |-> now, force |-> TRUE, caller |-> "none"]>>
           /\ listRequests' = Append(listRequests, [at |-> now, force |-> TRUE]) ]_vars

\* a refresh completed, and a forced call issued after it within the cooldown
\* of its start is outstanding
C9_Witness ==
  /\ Len(listRequests) = 2
  /\ Len(listCalls) = 1
  /\ loadingLockRef
  /\ listCalls[1].force
  /\ lastRefreshTimeRef > 0
  /\ listCalls[1].now - lastRefreshTimeRef < Cooldown

-----------------------------------------------------------------------------
(* C10. Malformed list response: when a list call resolves with a body whose *)
(* regions field is not an array, the roster becomes empty and exactly one   *)
(* entry is appended to the event log.                                       *)
C10_MalformedLogged ==
  [][ \A i \in 1..Len(listCalls) : \A data \in ListResponses :
        (data.kind = "malformed" /\ LoadRegionsSettle(i, data))
          => (regions' = <<>> /\ Len(logs') = Len(logs) + 1) ]_vars

-----------------------------------------------------------------------------
(* C11. Progress cleanup: whenever no handleGenerate call is in progress -   *)
(* in particular after one has resolved, with a result, a soft error or a    *)
(* rejection - the progress map is empty and no progress timer is scheduled, *)
(* and the timer and a non-empty map exist only while the infer call is      *)
(* outstanding, so no later tick refills the map.                            *)
C11_ProgressCleanup ==
  /\ ~isGenerating => (progressByRegion = <<>> /\ ~progressTimerRef)
  /\ (progressTimerRef \/ progressByRegion # <<>>) => Len(inferCalls) = 1

\* a generate call whose progress map was advanced by a tick has resolved, and
\* the map is empty and the timer gone
C11_Witness ==
  /\ lastResult # None
  /\ ticks > 0
  /\ ~isGenerating
  /\ progressByRegion = <<>>
  /\ ~progressTimerRef

-----------------------------------------------------------------------------
(* Vocabulary of the pipeline summary's properties. *)

\* the summary shown for the generation result held
Summary == pipelineSummary(lastResult)

\* the per-region results of the generation result held
Results == IF lastResult = None THEN <<>> ELSE lastResult[1].results

\* the positions of the results that carry a latency
Carrying == {i \in 1..Len(Results) : Results[i].latency_ms # None}

LatencyAt(i) == Results[i].latency_ms[1]

\* the minimum latency among the results that carry one
MinLatency ==
  CHOOSE m \in {LatencyAt(i) : i \in Carrying} : \A i \in Carrying : m <= LatencyAt(i)

\* the first position that carries the minimum latency
FirstFastest ==
  CHOOSE i \in Carrying :
    LatencyAt(i) = MinLatency /\ \A j \in Carrying : j < i => LatencyAt(j) > MinLatency

RECURSIVE SumOfLatencies(_)
SumOfLatencies(S) ==
  IF S = {} THEN 0
  ELSE LET i == CHOOSE x \in S : TRUE IN LatencyAt(i) + SumOfLatencies(S \ {i})

Distance(a, b) == IF a < b THEN b - a ELSE a - b

-----------------------------------------------------------------------------
(* C12. Aggregation fastest: whenever some result carries a latency (0       *)
(* included), the summary names the first result that carries the minimum    *)
(* latency and reports that minimum as the fastest latency.                  *)
C12_Fastest ==
  Carrying # {} =>
    /\ Summary # None
    /\ Summary[1].fastestName = Results[FirstFastest].region_name
    /\ Summary[1].fastestLatency = MinLatency

-----------------------------------------------------------------------------
(* C13. Aggregation count and no-data: no summary is produced exactly when   *)
(* no result carries a latency (no generation result, an empty or absent     *)
(* list, or only failed entries); otherwise the summary's count is the       *)
(* number of results that carry a latency.                                   *)
C13_CountAndNoData ==
  /\ Summary = None <=> Carrying = {}
  /\ Summary # None => Summary[1].count = Cardinality(Carrying)

\* a list of three results of which one carries no latency was summarised
C13_Witness ==
  /\ Len(Results) = 3
  /\ Cardinality(Carrying) = 2
  /\ Summary # None
  /\ Summary[1].count = 2

-----------------------------------------------------------------------------
(* C14. Aggregation average: averageLatency is an integer nearest to the     *)
(* mean of the latencies of the results that carry one (failed entries in    *)
(* neither the sum nor the divisor); for [{A,120},{B,80},{C,error}] the      *)
(* summary is count 2, fastest B (80), averageLatency 100, parallelTime 80.  *)
C14_Average ==
  /\ Summary # None =>
       2 * Distance(Summary[1].averageLatency * Cardinality(Carrying),
                    SumOfLatencies(Carrying)) <= Cardinality(Carrying)
  /\ [i \in 1..Len(Results) |-> Results[i].latency_ms] = <<Some(120), Some(80), None>>
       => Summary = Some([count |-> 2, fastestName |-> "B", fastestLatency |-> 80,
                          averageLatency |-> 100, parallelTime |-> 80])

\* the list [{A,120},{B,80},{C,error}] was summarised
C14_Witness ==
  /\ [i \in 1..Len(Results) |-> Results[i].latency_ms] = <<Some(120), Some(80), None>>
  /\ Results[3].error = "timeout"
  /\ Summary # None
  /\ Summary[1].averageLatency = 100

-----------------------------------------------------------------------------
(* C15. Aggregation parallelTime: parallelTime is the minimum latency among  *)
(* the results that carry one, and equals the latency the same summary       *)
(* reports for the fastest region.                                           *)
C15_ParallelTime ==
  Summary # None =>
    /\ Summary[1].parallelTime = MinLatency
    /\ Summary[1].parallelTime = Summary[1].fastestLatency

-----------------------------------------------------------------------------
(* C16. Optimistic kill: a handleKill that passes its guard marks the region *)
(* killed with latency_ms null in the roster at once, before killRegion      *)
(* settles, and the region is killed in the roster after killRegion settles, *)
(* rejected or not.                                                          *)
C16_OptimisticKill ==
  [][ /\ \A i \in 1..Len(regions) :
           (handleKill(regions[i]) /\ ~KillBlocked(regions[i]))
             => (regions'[i].status = "killed" /\ regions'[i].latency_ms = None)
      /\ \A i \in 1..Len(killCalls) : \A resolved \in BOOLEAN :
           KillSettle(i, resolved)
             => \A k \in EntriesOf(regions', killCalls[i].id) :
                  regions'[k].status = "killed" /\ regions'[k].latency_ms = None ]_vars

-----------------------------------------------------------------------------
(* C17. Post-kill refresh: when the killRegion call of a handleKill settles, *)
(* rejected or not, one forced refresh is scheduled for 1000 ms later.       *)
C17_PostKillRefresh ==
  [][ \A i \in 1..Len(killCalls) : \A resolved \in BOOLEAN :
        KillSettle(i, resolved)
          => killTimers' = Append(killTimers, now + KillRefreshDelay) ]_vars

-----------------------------------------------------------------------------
(* C18. Global kill guard: at most one killRegion call is outstanding, and   *)
(* handleKill makes no call when its region is down or killed, when it is    *)
(* disabled, or when a kill of any region is in flight.                      *)
C18_GlobalKillGuard ==
  [][ /\ Len(killCalls) <= 1 /\ Len(killCalls') <= 1
      /\ \A i \in 1..Len(regions) :
           ( /\ handleKill(regions[i])
             /\ \/ regions[i].status \in {"down", "killed"}
                \/ regions[i].disabled
                \/ Len(killCalls) > 0 )
             => killCalls' = killCalls ]_vars

\* of three presses of Kill on a roster holding a disabled region and a region
\* that can be killed, one made a call, which is outstanding
C18_Witness ==
  /\ invoked.handleKill = 3
  /\ Len(killCalls) = 1
  /\ logs = <<"Killing region">>
  /\ \E i \in 1..Len(regions) : regions[i].disabled /\ regions[i].status = "healthy"
  /\ \E i \in 1..Len(regions) : ~isKillDisabled(regions[i])

-----------------------------------------------------------------------------
(* C19. Silent no-op: handleDeploy, handleKill or handleGenerate invoked     *)
(* while its own guard is held changes nothing: roster, error, event log,    *)
(* generation result, progress map, guards, timers and outstanding calls.    *)
C19_SilentNoOp ==
  [][ ( \/ handleDeploy /\ isDeploying
        \/ handleGenerate /\ isGenerating
        \/ \E i \in 1..Len(regions) : handleKill(regions[i]) /\ Truthy(killingRegion) )
        => UNCHANGED <<rosterVars, refreshVars, deployVars, killVars, generateVars,
                       prompt, error, logs, fixedVars, driverVars, now>> ]_vars

\* Kill was pressed twice on healthy regions of the only roster loaded; the
\* first press made the call that is outstanding, the second did nothing
C19_Witness ==
  /\ invoked.handleKill = 2
  /\ invoked.loadRegions = 1
  /\ invoked.handleDeploy = 0
  /\ Len(killCalls) = 1
  /\ Truthy(killingRegion)
  /\ logs = <<"Killing region">>
  /\ \A i \in 1..Len(regions) : ~isKillDisabled(regions[i])

-----------------------------------------------------------------------------
(* C20. Guaranteed guard release: the continuation that runs when a          *)
(* handler's awaited call settles - resolved, with a soft error, with a      *)
(* malformed payload, or rejected - releases the handler's guard:            *)
(* isGenerating after infer, killingRegion after killRegion, the loading     *)
(* lock after fetchRegions, isDeploying after deployGlobal or, when          *)
(* handleDeploy went on to await loadRegions(true), after that refresh.      *)
C20_GuardReleased ==
  [][ /\ \A i \in 1..Len(inferCalls) : \A data \in InferResponses :
           GenerateSettle(i, data) => ~isGenerating'
      /\ \A i \in 1..Len(killCalls) : \A resolved \in BOOLEAN :
           KillSettle(i, resolved) => killingRegion' = Null
      /\ \A i \in 1..Len(listCalls) : \A data \in ListResponses :
           LoadRegionsSettle(i, data)
             => /\ ~loadingLockRef'
                /\ listCalls[i].caller = "handleDeploy" => ~isDeploying'
      /\ \A data \in DeployResponses :
           DeploySettle(data)
             => \/ ~isDeploying'
                \/ /\ data.kind = "malformed"
                   /\ \E i \in 1..Len(listCalls') :
                        listCalls'[i].caller = "handleDeploy" ]_vars

\* a deploy whose response carried no roster went on to a refresh that was
\* rejected, and the deploy guard and the loading lock are released
C20_Witness ==
  /\ error = "Failed to load regions"
  /\ invoked.handleDeploy = 1
  /\ invoked.loadRegions = 0
  /\ invoked.handleKill = 0
  /\ listCalls = <<>>
  /\ deployCalls = 0
  /\ ~isDeploying
  /\ ~loadingLockRef

-----------------------------------------------------------------------------
(* C21. Event log bound: after any sequence of appendLog calls the event     *)
(* log holds at most 50 entries, newest first; appending to a full log       *)
(* discards the oldest entry.  The updater keeps prev.slice(0, 50) behind    *)
(* the new entry, so a log of 50 entries grows to 51.                        *)
C21_LogBound == Len(logs) <= 50

-----------------------------------------------------------------------------
(* C22. Refresh failure: when the fetchRegions call of loadRegions rejects,  *)
(* the roster and the deployment identity are what they were before the      *)
(* response, the error slot is "Failed to load regions", exactly one entry,  *)
(* the failure, is put at the head of the event log in front of the entries  *)
(* it kept, and the loading lock and isLoadingRegions are released.          *)
C22_RefreshFailure ==
  [][ \A i \in 1..Len(listCalls) :
        LoadRegionsSettle(i, Body("rejected", Null, <<>>))
          => /\ regions' = regions
             /\ deploymentId' = deploymentId
             /\ error' = "Failed to load regions"
             /\ logs' # <<>>
             /\ logs'[1] = "Failed to load regions"
             /\ Len(logs') >= Min(Len(logs) + 1, LogKeep)
             /\ Len(logs') <= Len(logs) + 1
             /\ Tail(logs') = SubSeq(logs, 1, Len(logs') - 1)
             /\ ~loadingLockRef'
             /\ ~isLoadingRegions' ]_vars

\* the refresh was rejected while the deploy was still outstanding: the roster
\* held is not empty, the log has gained the failure and the lock is released
C22_Witness ==
  /\ listCalls = <<>>
  /\ deployCalls = 1
  /\ regions # <<>>
  /\ error = "Failed to load regions"
  /\ logs = <<"Failed to load regions">>
  /\ ~loadingLockRef
  /\ ~isLoadingRegions

-----------------------------------------------------------------------------
(* C23. Deploy failure: when deployGlobal rejects, the roster and the        *)
(* deployment identity are unchanged, the error slot is "Deployment failed", *)
(* the failure is put at the head of the event log and isDeploying is false. *)
C23_DeployFailure ==
  [][ DeploySettle(Body("rejected", Null, <<>>))
        => /\ regions' = regions
           /\ deploymentId' = deploymentId
           /\ error' = "Deployment failed"
           /\ logs' # <<>>
           /\ logs'[1] = "Deploy failed"
           /\ Tail(logs') = SubSeq(logs, 1, Len(logs') - 1)
           /\ ~isDeploying' ]_vars

\* the deploy was rejected while the refresh was still outstanding: a roster is
\* held, no deployment is known, the guard is released
C23_Witness ==
  /\ deployCalls = 0
  /\ Len(listCalls) = 1
  /\ regions # <<>>
  /\ deploymentId = Null
  /\ error = "Deployment failed"
  /\ logs = <<"Deploy failed">>
  /\ ~isDeploying

-----------------------------------------------------------------------------
(* C24. Generate failure modes.  When infer rejects, the generation result   *)
(* is the local {prompt, error: "Service unavailable"} and the error slot is *)
(* "Generation failed".  When infer resolves with a body carrying an error   *)
(* field, that body is stored with the prompt as the generation result,      *)
(* "Generation error" is logged and the error slot is left as it was.  In    *)
(* neither case is infer called again: a settling removes one outstanding    *)
(* call and adds none, and an accepted generate adds exactly one.            *)
C24_FailureModes ==
  [][ /\ \A i \in 1..Len(inferCalls) : \A data \in InferResponses :
           GenerateSettle(i, data)
             => /\ Len(inferCalls') = Len(inferCalls) - 1
                /\ lastResult' # None
                /\ lastResult'[1].prompt = inferCalls[i]
                /\ data.kind = "rejected"
                     => /\ lastResult'[1].error = "Service unavailable"
                        /\ lastResult'[1].results = <<>>
                        /\ error' = "Generation failed"
                        /\ logs'[1] = "Generation failed"
                /\ data.kind # "rejected" /\ Truthy(data.error)
                     => /\ lastResult'[1].error = data.error
                        /\ lastResult'[1].results = data.results
                        /\ error' = error
                        /\ logs'[1] = "Generation error"
                        /\ Tail(logs') = logs
      /\ handleGenerate
           => Len(inferCalls') = Len(inferCalls) + (IF GenerateBlocked THEN 0 ELSE 1) ]_vars

\* the one infer call of the generate resolved with an error field: the body is
\* the generation result, the error slot is empty and nothing is outstanding
C24_Witness ==
  /\ invoked.handleGenerate = 1
  /\ lastResult # None
  /\ lastResult[1].error = "no healthy regions"
  /\ lastResult[1].prompt = <<"a">>
  /\ error = Null
  /\ logs = <<"Generation error", "Generating">>
  /\ inferCalls = <<>>
  /\ ~isGenerating

-----------------------------------------------------------------------------
(* C25. Single periodic driver: at most one interval timer of the refresh    *)
(* effect exists in every state, and its period is the selected interval;    *)
(* none exists while the interval is 0 (Manual) or after the component has   *)
(* unmounted; a change of the interval leaves only the timer it has just     *)
(* set, the old one being cancelled; and a periodic refresh fires only while *)
(* the component is mounted with an interval other than 0.                   *)
C25_SingleDriver ==
  [][ /\ Len(intervalTimers) <= 1
      /\ Len(intervalTimers') <= 1
      /\ \A j \in 1..Len(intervalTimers') : intervalTimers'[j].period = refreshInterval'
      /\ refreshInterval' = 0 => intervalTimers' = <<>>
      /\ ~mounted' => intervalTimers' = <<>>
      /\ \A v \in RefreshIntervals :
           (setRefreshInterval(v) /\ v # refreshInterval)
             => \A j \in 1..Len(intervalTimers') :
                  intervalTimers'[j] = [period |-> v, due |-> now + v]
      /\ (\E j \in 1..Len(intervalTimers) : IntervalFires(j))
           => (refreshInterval # 0 /\ mounted) ]_vars

\* the 5s timer fired, then the interval was changed to 10s: the only timer is
\* the one of 10s, set at the change
C25_Witness ==
  /\ invoked.setRefreshInterval = 1
  /\ invoked.handleManualRefresh = 0
  /\ manualStart # None
  /\ refreshInterval = 10000
  /\ Len(intervalTimers) = 1
  /\ intervalTimers[1].period = 10000
  /\ intervalTimers[1].due > now + 5000

-----------------------------------------------------------------------------
(* C26. Periodic refreshes are non-forced: a request a firing of the         *)
(* interval timer issues has force = false, and a firing issues no request   *)
(* while a refresh is in flight or less than 2000 ms after the last          *)
(* completed refresh was issued.  The timer's callback is the smooth         *)
(* refresh, which calls loadRegions(true).                                   *)
C26_PeriodicNonForced ==
  [][ (\E j \in 1..Len(intervalTimers) : IntervalFires(j))
        => /\ listRequests' # listRequests => ~listRequests'[Len(listRequests')].force
           /\ (loadingLockRef \/ now - lastRefreshTimeRef < Cooldown)
                => listRequests' = listRequests ]_vars

-----------------------------------------------------------------------------
(* C27. Manual refresh: the Refresh button, unless a smooth refresh is under *)
(* way, issues one list request with force = true; isManualRefreshing goes   *)
(* back to false no earlier than 600 ms after the smooth refresh started;    *)
(* while the smooth refresh sleeps out the remainder its own list call has   *)
(* returned, so the loading lock is held only if another refresh is in       *)
(* flight; the smooth refresh never writes the deploy, kill and generate     *)
(* guards, and a deploy pressed during the sleep is accepted.                *)
C27_ManualRefresh ==
  [][ /\ (handleManualRefresh /\ ~isManualRefreshing)
           => /\ isManualRefreshing'
              /\ Len(listRequests') = Len(listRequests) + 1
              /\ listRequests'[Len(listRequests')].force
      /\ (isManualRefreshing /\ ~isManualRefreshing')
           => /\ manualStart # None
              /\ now - manualStart[1] >= 600
      /\ sleepTimer' # None
           => /\ isManualRefreshing'
              /\ \A k \in 1..Len(listCalls') : listCalls'[k].caller # "doSmoothRefresh"
              /\ listCalls' = <<>> => ~loadingLockRef'
      /\ ( \/ handleManualRefresh
           \/ SleepFires
           \/ \E j \in 1..Len(intervalTimers) : IntervalFires(j) )
           => UNCHANGED <<isDeploying, killingRegion, isGenerating>>
      /\ (sleepTimer # None /\ handleDeploy /\ ~isDeploying)
           => (isDeploying' /\ deployCalls' = deployCalls + 1) ]_vars

\* the Refresh button was pressed and its list call returned within 600 ms;
\* during the sleep a deploy was pressed and went on to a refresh of its own,
\* which is in flight while the smooth refresh still sleeps
C27_Witness ==
  /\ invoked.handleManualRefresh = 1
  /\ isManualRefreshing
  /\ sleepTimer # None
  /\ now < sleepTimer[1].at + sleepTimer[1].ms
  /\ isDeploying
  /\ Len(listCalls) = 1
  /\ listCalls[1].caller = "handleDeploy"
  /\ listCalls[1].now > sleepTimer[1].at
  /\ loadingLockRef

-----------------------------------------------------------------------------
(* C28. Progress bounds: a generate that is accepted seeds every value of    *)
(* the progress map in 5..20; a firing of the progress interval keeps the    *)
(* regions of the map and lowers no value; and every value of the map is at  *)
(* least 5 and at most 95, so below 100, in every state.                     *)
C28_ProgressBounds ==
  [][ /\ \A id \in DOMAIN progressByRegion' :
           progressByRegion'[id] >= 5 /\ progressByRegion'[id] <= 95
      /\ handleGenerate /\ ~GenerateBlocked
           => \A id \in DOMAIN progressByRegion' :
                progressByRegion'[id] >= 5 /\ progressByRegion'[id] <= 20
      /\ ProgressTick
           => /\ DOMAIN progressByRegion' = DOMAIN progressByRegion
              /\ \A id \in DOMAIN progressByRegion :
                   progressByRegion'[id] >= progressByRegion[id] ]_vars

\* the interval has fired while the call is outstanding: r1 was stopped at the
\* cap and r2 went from 81 to 86
C28_Witness ==
  /\ isGenerating
  /\ ticks >= 1
  /\ DOMAIN progressByRegion = {"r1", "r2"}
  /\ progressByRegion["r1"] = ProgressCap
  /\ progressByRegion["r2"] = 86

-----------------------------------------------------------------------------
(* C30. Reconciliation follows the fetched set.  For every held roster and   *)
(* every fetched roster, the reconciled roster has the length of the fetched *)
(* one and its ids in its order, so a region held but not fetched is         *)
(* dropped; an entry whose id is not held, or is held (at its first          *)
(* position in the held roster) with a status other than killed and down, is *)
(* the fetched entry verbatim; and every entry, overridden or not, keeps the *)
(* fetched slug, display name, address and disabled flag.                    *)

\* the status with which a roster first holds an id it holds
FirstStatus(roster, id) ==
  roster[CHOOSE j \in EntriesOf(roster, id) :
           \A k \in EntriesOf(roster, id) : j <= k].status

C30_FollowsFetched ==
  \A w \in Reconciliations :
    LET fetched == w.data.regions
    IN  /\ Len(regions) = Len(fetched)
        /\ \A i \in 1..Len(fetched) :
             /\ regions[i].id = fetched[i].id
             /\ regions[i].slug = fetched[i].slug
             /\ regions[i].display_name = fetched[i].display_name
             /\ regions[i].ip = fetched[i].ip
             /\ regions[i].disabled = fetched[i].disabled
             /\ ( \/ EntriesOf(w.previous, fetched[i].id) = {}
                  \/ FirstStatus(w.previous, fetched[i].id) \notin {"killed", "down"} )
                  => regions[i] = fetched[i]

\* a reconciliation of a held roster of two regions with a fetched roster of
\* one: the region not fetched is dropped, the other, held as down and fetched
\* as healthy, is overridden and carries the fetched slug
C30_Witness ==
  \E w \in Reconciliations :
    /\ Len(w.previous) = 2
    /\ Len(regions) = 1
    /\ w.previous[1].id # w.previous[2].id
    /\ FirstStatus(w.previous, regions[1].id) = "down"
    /\ w.data.regions[1].status = "healthy"
    /\ regions[1].status = "killed"
    /\ regions[1].slug = w.data.regions[1].slug
    /\ regions[1].slug # w.previous[1].slug

-----------------------------------------------------------------------------
(* C31. Refresh success bookkeeping: when the fetchRegions call of a         *)
(* loadRegions resolves, with a roster or without one, the error slot        *)
(* becomes null and lastRefreshTimeRef becomes the time that loadRegions     *)
(* read when it began, before it issued the call; when the call rejects,     *)
(* lastRefreshTimeRef is left as it was.                                     *)
C31_Bookkeeping ==
  [][ \A i \in 1..Len(listCalls) : \A data \in ListResponses :
        LoadRegionsSettle(i, data)
          => IF data.kind = "rejected"
             THEN lastRefreshTimeRef' = lastRefreshTimeRef
             ELSE /\ error' = Null
                  /\ lastRefreshTimeRef' = listCalls[i].now ]_vars

\* the only refresh completed some time after it began, and the cooldown
\* reference is the time it began
C31_Witness ==
  /\ Len(listRequests) = 1
  /\ listCalls = <<>>
  /\ error = Null
  /\ lastRefreshTimeRef = listRequests[1].at
  /\ lastRefreshTimeRef < now

-----------------------------------------------------------------------------
(* C32. Roster id uniqueness: in every reachable state no two entries of the *)
(* roster have the same id.  Neither loadRegions nor handleDeploy looks at   *)
(* the ids of the roster a response carries.                                 *)
C32_UniqueIds ==
  \A i, j \in 1..Len(regions) : regions[i].id = regions[j].id => i = j

-----------------------------------------------------------------------------
(* C33. Kill frame.                                                          *)

\* the positions at which the local kill changed the roster
Changed == {i \in 1..Len(regions) : \E w \in WritesBy("handleKill") :
              i \in 1..Len(w.previous) /\ regions[i] # w.previous[i]}

-----------------------------------------------------------------------------
(* C34. Summary only for successful responses: when the generation result    *)
(* carries an error, the gateway's or the synthesised one, no pipeline       *)
(* summary is produced, whatever per-region results accompany it.            *)
(* pipelineSummary reads the results of lastResult and not its error.        *)
C34_NoSummaryOnError ==
  (lastResult # None /\ Truthy(lastResult[1].error)) => Summary = None

-----------------------------------------------------------------------------
(* C35. In-flight flag accuracy: in every reachable state loadingLockRef is  *)
(* true if and only if a fetchRegions call of loadRegions is outstanding.    *)
(* The finally block of each loadRegions clears the flag, whatever other     *)
(* call is outstanding.                                                      *)
C35_LockAccurate == loadingLockRef <=> (listCalls # <<>>)

-----------------------------------------------------------------------------
(* C36. Cooldown reference monotonicity: lastRefreshTimeRef never decreases. *)
(* A refresh that completes writes the time it began, also when a refresh    *)
(* that began later has completed before it.                                 *)
C36_Monotone == [][lastRefreshTimeRef' >= lastRefreshTimeRef]_vars

-----------------------------------------------------------------------------
(* C37. Deploy fallback keeps overrides.  When deployGlobal resolves with a  *)
(* body that carries no regions array, handleDeploy leaves the roster as it  *)
(* is, keeps its guard and issues a forced refresh; when that refresh        *)
(* resolves with a roster, every region the dashboard holds as killed or     *)
(* down (at every position it holds it) and the roster contains is stored as *)
(* killed with latency_ms null, whatever the gateway reports for it, and the *)
(* deploy guard is released.                                                 *)

\* the roster holds the id, and holds it as killed or down at every position
HeldOverridden(roster, id) ==
  /\ EntriesOf(roster, id) # {}
  /\ \A i \in EntriesOf(roster, id) : roster[i].status \in {"killed", "down"}

C37_FallbackKeepsOverrides ==
  [][ /\ \A data \in DeployResponses :
           (DeploySettle(data) /\ data.kind = "malformed")
             => /\ regions' = regions
                /\ isDeploying'
                /\ Len(listCalls') = Len(listCalls) + 1
                /\ listCalls'[Len(listCalls')].caller = "handleDeploy"
                /\ listCalls'[Len(listCalls')].force
      /\ \A i \in 1..Len(listCalls) : \A data \in ListResponses :
           ( /\ LoadRegionsSettle(i, data)
             /\ listCalls[i].caller = "handleDeploy"
             /\ data.kind = "array" )
             => /\ ~isDeploying'
                /\ \A X \in Ids :
                     (HeldOverridden(regions, X) /\ EntriesOf(data.regions, X) # {})
                       => ( /\ EntriesOf(regions', X) # {}
                            /\ KilledAndCleared(regions', X) ) ]_vars

\* the deploy resolved without a roster and its refresh has resolved, the other
\* refresh being still outstanding: r1, which the gateway reported healthy, is
\* stored as killed, and the deploy guard is released
C37_Witness ==
  /\ deployCalls = 0
  /\ ~isDeploying
  /\ Len(listRequests) = 2
  /\ Len(listCalls) = 1
  /\ listCalls[1].caller = "none"
  /\ error = Null
  /\ Len(regions) = 2
  /\ regions[1] = [Healthy("r1") EXCEPT !.status = "killed", !.latency_ms = None]
  /\ regions[2] = Healthy("r2")

-----------------------------------------------------------------------------
(* C38. Server-reported down is sticky: when a refresh resolves with a       *)
(* roster that contains a region the dashboard holds as down (at every       *)
(* position it holds it), the roster stored holds the region as killed with  *)
(* latency_ms null at every position, whatever status and latency the        *)
(* gateway reports for it.                                                   *)

\* the roster holds the id, and holds it as down at every position
HeldDown(roster, id) ==
  /\ EntriesOf(roster, id) # {}
  /\ \A i \in EntriesOf(roster, id) : roster[i].status = "down"

C38_DownIsSticky ==
  [][ \A i \in 1..Len(listCalls) : \A data \in ListResponses : \A X \in Ids :
        ( /\ LoadRegionsSettle(i, data)
          /\ data.kind = "array"
          /\ HeldDown(regions, X)
          /\ EntriesOf(data.regions, X) # {} )
          => (EntriesOf(regions', X) # {} /\ KilledAndCleared(regions', X)) ]_vars

\* a first refresh stored r1 as down, as the gateway reported it, and a second
\* one, for which the gateway reported r1 healthy, stored it as killed
C38_Witness ==
  /\ Len(listRequests) = 2
  /\ listCalls = <<>>
  /\ invoked.handleKill = 0
  /\ Len(regions) = 2
  /\ regions[1] = [Healthy("r1") EXCEPT !.status = "killed", !.latency_ms = None]
  /\ regions[2] = Healthy("r2")

-----------------------------------------------------------------------------
(* C39. Progress lifetime: while the progress interval is set or the         *)
(* progress map is not empty, a generate call is in flight; a generate is    *)
(* accepted only while no progress interval is set, so there is never more   *)
(* than one; the keys of the map an accepted generate seeds are the regions  *)
(* that are healthy and not disabled then, and they stay the keys of the map *)
(* on every step until the call settles, whatever happens to the roster.     *)
C39_ProgressLifetime ==
  [][ /\ (progressTimerRef' \/ DOMAIN progressByRegion' # {})
           => (isGenerating' /\ Len(inferCalls') = 1)
      /\ (handleGenerate /\ ~GenerateBlocked)
           => /\ ~progressTimerRef
              /\ DOMAIN progressByRegion' = ActiveIds(regions)
              /\ progressTimerRef' <=> ActiveIds(regions) # {}
      /\ (isGenerating /\ isGenerating')
           => /\ DOMAIN progressByRegion' = DOMAIN progressByRegion
              /\ progressTimerRef' = progressTimerRef ]_vars

\* Generate was pressed while r1 and r2 were healthy, then r1 was killed: the
\* call is outstanding, the interval has fired and the map still has both keys
C39_Witness ==
  /\ isGenerating
  /\ progressTimerRef
  /\ ticks >= 1
  /\ invoked.handleGenerate = 1
  /\ invoked.handleKill = 1
  /\ killCalls = <<>>
  /\ DOMAIN progressByRegion = {"r1", "r2"}
  /\ ActiveIds(regions) = {"r2"}

-----------------------------------------------------------------------------
(* C40. Generate without healthy regions: handleGenerate invoked with a      *)
(* prompt that is not blank, no generate in flight and no healthy, enabled   *)
(* region in the roster sets isGenerating and issues one infer call for the  *)
(* trimmed prompt, with an empty progress map and no progress interval; with *)
(* a blank prompt it issues no call and changes nothing.                     *)
C40_GenerateWithoutRegions ==
  [][ /\ (handleGenerate /\ Trim(prompt) # <<>> /\ ~isGenerating /\ ActiveIds(regions) = {})
           => /\ isGenerating'
              /\ inferCalls' = Append(inferCalls, Trim(prompt))
              /\ progressByRegion' = <<>>
              /\ ~progressTimerRef'
      /\ (handleGenerate /\ Trim(prompt) = <<>>)
           => UNCHANGED <<rosterVars, refreshVars, deployVars, killVars, generateVars,
                          prompt, error, logs, fixedVars, driverVars, now>> ]_vars

\* Generate was pressed with a prompt while the roster held regions, none of
\* them healthy and enabled: the one call is outstanding, without progress
C40_Witness ==
  /\ invoked.handleGenerate = 1
  /\ invoked.handleKill = 0
  /\ regions # <<>>
  /\ ActiveIds(regions) = {}
  /\ isGenerating
  /\ inferCalls = <<<<"a">>>>
  /\ progressByRegion = <<>>
  /\ ~progressTimerRef

====
